---- MODULE Spec2Model ----
(***************************************************************************)
(* Model of the diagnostic and recommendation engine of wm_depot_cb_agent: *)
(* RootCauseAnalyzer (agents/root_cause_analyzer.py) and ItemRecommender   *)
(* (agents/item_recommender.py), QueryGenerator (agents/query_generator.py) *)
(* and the conversion of rows in streamlit_app.py.  The engine is a set of *)
(* functions; a behaviour of a sequential specification is one call: Init  *)
(* draws the arguments of the call, the action runs the whole function and *)
(* stores what it returns.  SpecConc runs calls of several threads on      *)
(* shared objects, statement block by statement block.                     *)
(*                                                                         *)
(* Python floats are modelled as exact rationals [n, d] in lowest terms    *)
(* with d > 0.  Where the IEEE-754 double result of the code differs from  *)
(* the exact result by more than a rounding error in the last place (the   *)
(* truncation int(x * 0.70)), the double result is modelled.               *)
(***************************************************************************)
EXTENDS Integers, Sequences, FiniteSets, TLC

VARIABLES op, args, result, pc, frames, heap

vars == <<op, args, result, pc, frames, heap>>

\* A call that runs alone: no threads, no objects shared between calls.
Sequential == frames = <<>> /\ heap = <<>>

(***************************************************************************)
(* Bounds of the model.                                                    *)
(***************************************************************************)
MaxCount == 3
MaxMissing == 6
MaxItems == 3
MaxTopN == 4
MaxWords == 2
MaxBatch == 2
MaxThreads == 2

(***************************************************************************)
(* Exact rational arithmetic standing for Python float arithmetic.         *)
(***************************************************************************)
Abs(i) == IF i < 0 THEN -i ELSE i

RECURSIVE GCD(_, _)
GCD(a, b) == IF b = 0 THEN a ELSE GCD(b, a % b)

Rat(n, d) ==
    LET g == GCD(Abs(n), Abs(d))
        s == IF d < 0 THEN -1 ELSE 1
    IN  [n |-> (s * n) \div g, d |-> (s * d) \div g]

FromInt(i) == [n |-> i, d |-> 1]

RAdd(a, b) == Rat(a.n * b.d + b.n * a.d, a.d * b.d)
RSub(a, b) == Rat(a.n * b.d - b.n * a.d, a.d * b.d)
RMul(a, b) == Rat(a.n * b.n, a.d * b.d)
RAbs(a) == [n |-> Abs(a.n), d |-> a.d]
RLt(a, b) == a.n * b.d < b.n * a.d
RLe(a, b) == a.n * b.d <= b.n * a.d
RMin(a, b) == IF RLe(a, b) THEN a ELSE b

\* An exception raised by the call, as a value of its own shape.
Raised(name) == [exc |-> name]
IsExc(x) == "exc" \in DOMAIN x

\* Python's true division a / b: raises ZeroDivisionError when b is 0.
TrueDiv(a, b) ==
    IF b.n = 0 THEN Raised("ZeroDivisionError")
    ELSE Rat(a.n * b.d, a.d * b.n)

\* dict.get(key, default)
Get(dict, key, default) == IF key \in DOMAIN dict THEN dict[key] ELSE default

\* A key of a dict whose value is None. Values of the model are compared
\* only with values of their own kind, so a dict lists the keys it maps to
\* None in a field of their own, and carries no other entry for them.
HasNone(dict, key) == "none_valued" \in DOMAIN dict /\ key \in dict.none_valued

(***************************************************************************)
(* Optional[List]: None, or a list.                                        *)
(***************************************************************************)
None == [tag |-> "None"]
List(seq) == [tag |-> "list", items |-> seq]
Truthy(m) == m.tag = "list" /\ m.items # <<>>
PyLen(m) == Len(m.items)

(***************************************************************************)
(* RootCauseAnalyzer                                                       *)
(***************************************************************************)
CATCHMENT_DROP_THRESHOLD == FromInt(-10)
ENTITLEMENT_DROP_THRESHOLD == FromInt(-15)
FULFILLMENT_ISSUE_THRESHOLD == Rat(75, 100)
NORMAL_VARIANCE_BAND == FromInt(10)

CATCHMENT_DROP == "catchment_drop"
ASSORTMENT_GAP == "assortment_gap"
FULFILLMENT_ISSUE == "fulfillment_issue"
NORMAL_VARIANCE == "normal_variance"

\* Mutant: the zero-baseline guard is missing.
MutCalculateVarianceUnguarded(current_value, baseline_value) ==
    LET q == TrueDiv(FromInt(current_value - baseline_value), FromInt(baseline_value))
    IN  IF IsExc(q) THEN q ELSE RMul(q, FromInt(100))

\* _calculate_variance: ((current - baseline) / baseline) * 100, 0.0 on a
\* zero baseline.
CalculateVariance(current_value, baseline_value) ==
    IF baseline_value = 0 THEN FromInt(0)
    ELSE LET q == TrueDiv(FromInt(current_value - baseline_value),
                          FromInt(baseline_value))
         IN  IF IsExc(q) THEN q ELSE RMul(q, FromInt(100))

\* Mutant: without entitled orders the rate is 100 (nothing was left
\* unfulfilled).
MutFulfillmentRateFullWithoutEntitled(attained_current, entitled_current) ==
    IF entitled_current > 0
    THEN LET q == TrueDiv(FromInt(attained_current), FromInt(entitled_current))
         IN  IF IsExc(q) THEN q ELSE RMul(q, FromInt(100))
    ELSE FromInt(100)

\* (attained_current / entitled_current) * 100 if entitled_current > 0 else 0
FulfillmentRate(attained_current, entitled_current) ==
    IF entitled_current > 0
    THEN LET q == TrueDiv(FromInt(attained_current), FromInt(entitled_current))
         IN  IF IsExc(q) THEN q ELSE RMul(q, FromInt(100))
    ELSE FromInt(0)

\* _calculate_variance(current_data.get(ckey, 0), baseline_data.get(bkey, 0)):
\* a baseline of None is not 0 and raises TypeError in the subtraction; a
\* current value of None raises it unless the baseline is 0.
VarianceOf(current_data, ckey, baseline_data, bkey) ==
    IF HasNone(baseline_data, bkey) THEN Raised("TypeError")
    ELSE IF HasNone(current_data, ckey)
    THEN IF Get(baseline_data, bkey, 0) = 0 THEN FromInt(0) ELSE Raised("TypeError")
    ELSE CalculateVariance(Get(current_data, ckey, 0), Get(baseline_data, bkey, 0))

\* The fulfillment rate of current_data: entitled_count > 0 raises TypeError
\* for None, and so does the division of an attained_count of None.
FulfillmentRateOf(current_data) ==
    IF HasNone(current_data, "entitled_count") THEN Raised("TypeError")
    ELSE IF HasNone(current_data, "attained_count")
    THEN IF Get(current_data, "entitled_count", 0) > 0 THEN Raised("TypeError")
         ELSE FromInt(0)
    ELSE FulfillmentRate(Get(current_data, "attained_count", 0),
                         Get(current_data, "entitled_count", 0))

\* list.sort(key=lambda x: x[1], reverse=True): a stable sort, descending by
\* confidence; elements of equal confidence keep their order.
RECURSIVE InsertCause(_, _)
InsertCause(sorted, c) ==
    IF sorted = <<>> THEN <<c>>
    ELSE IF RLt(Head(sorted)[2], c[2]) THEN <<c>> \o sorted
    ELSE <<Head(sorted)>> \o InsertCause(Tail(sorted), c)

\* Mutant: the sort is ascending (reverse=True is missing).
RECURSIVE MutInsertCauseAscending(_, _)
MutInsertCauseAscending(sorted, c) ==
    IF sorted = <<>> THEN <<c>>
    ELSE IF RLt(c[2], Head(sorted)[2]) THEN <<c>> \o sorted
    ELSE <<Head(sorted)>> \o MutInsertCauseAscending(Tail(sorted), c)

RECURSIVE MutSortCausesAscending(_)
MutSortCausesAscending(causes) ==
    IF causes = <<>> THEN <<>>
    ELSE MutInsertCauseAscending(
             MutSortCausesAscending(SubSeq(causes, 1, Len(causes) - 1)),
             causes[Len(causes)])

RECURSIVE SortCauses(_)
SortCauses(causes) ==
    IF causes = <<>> THEN <<>>
    ELSE InsertCause(SortCauses(SubSeq(causes, 1, Len(causes) - 1)),
                     causes[Len(causes)])

\* Mutant: the variance lowers the confidence of catchment-drop (- for +).
MutCatchmentDropLowConfidence(catchment_variance) ==
    IF RLt(catchment_variance, CATCHMENT_DROP_THRESHOLD)
    THEN << <<CATCHMENT_DROP,
              RSub(Rat(8, 10), TrueDiv(RAbs(catchment_variance), FromInt(100)))>> >>
    ELSE <<>>

\* Mutant: catchment-drop qualifies at the threshold itself (<= for <).
MutCatchmentDropAtThreshold(catchment_variance) ==
    IF RLe(catchment_variance, CATCHMENT_DROP_THRESHOLD)
    THEN << <<CATCHMENT_DROP,
              RAdd(Rat(8, 10), TrueDiv(RAbs(catchment_variance), FromInt(100)))>> >>
    ELSE <<>>

\* The candidate appended by the catchment-drop check, if any.
CatchmentDropCause(catchment_variance) ==
    IF RLt(catchment_variance, CATCHMENT_DROP_THRESHOLD)
    THEN << <<CATCHMENT_DROP,
              RAdd(Rat(8, 10), TrueDiv(RAbs(catchment_variance), FromInt(100)))>> >>
    ELSE <<>>

\* Mutant: the boost is given from 5 missing items on (>= 5 for > 5).
MutAssortmentGapBoostAtFive(entitlement_variance, catchment_variance, missing_items) ==
    IF /\ RLt(entitlement_variance, ENTITLEMENT_DROP_THRESHOLD)
       /\ RLt(CATCHMENT_DROP_THRESHOLD, catchment_variance)
    THEN LET confidence ==
                 RAdd(Rat(7, 10), TrueDiv(RAbs(entitlement_variance), FromInt(100)))
         IN  << <<ASSORTMENT_GAP,
                  IF Truthy(missing_items) /\ PyLen(missing_items) >= 5
                  THEN RMin(Rat(95, 100), RAdd(confidence, Rat(1, 10)))
                  ELSE confidence>> >>
    ELSE <<>>

\* The candidate appended by the assortment-gap check, if any.
AssortmentGapCause(entitlement_variance, catchment_variance, missing_items) ==
    IF /\ RLt(entitlement_variance, ENTITLEMENT_DROP_THRESHOLD)
       /\ RLt(CATCHMENT_DROP_THRESHOLD, catchment_variance)
    THEN LET confidence ==
                 RAdd(Rat(7, 10), TrueDiv(RAbs(entitlement_variance), FromInt(100)))
         IN  << <<ASSORTMENT_GAP,
                  IF Truthy(missing_items) /\ PyLen(missing_items) > 5
                  THEN RMin(Rat(95, 100), RAdd(confidence, Rat(1, 10)))
                  ELSE confidence>> >>
    ELSE <<>>

\* The candidate appended by the fulfillment-issue check, if any.
FulfillmentIssueCause(fulfillment_rate) ==
    IF RLt(fulfillment_rate, FULFILLMENT_ISSUE_THRESHOLD)
    THEN << <<FULFILLMENT_ISSUE,
              RMul(RSub(FromInt(1), TrueDiv(fulfillment_rate, FromInt(100))),
                   Rat(8, 10))>> >>
    ELSE <<>>

\* The list `causes` before it is sorted.
Causes(entitlement_variance, catchment_variance, fulfillment_rate, missing_items) ==
    CatchmentDropCause(catchment_variance)
    \o AssortmentGapCause(entitlement_variance, catchment_variance, missing_items)
    \o FulfillmentIssueCause(fulfillment_rate)

\* Mutant: the out-of-band fallback returns the in-band confidence.
MutDeterminePrimaryCauseOneConfidence(entitlement_variance, catchment_variance, fulfillment_rate, missing_items) ==
    LET causes == Causes(entitlement_variance, catchment_variance,
                         fulfillment_rate, missing_items)
    IN  IF causes # <<>> THEN SortCauses(causes)[1]
        ELSE <<NORMAL_VARIANCE, Rat(8, 10)>>

\* _determine_primary_cause: <<cause, confidence>>
DeterminePrimaryCause(entitlement_variance, catchment_variance, fulfillment_rate, missing_items) ==
    LET causes == Causes(entitlement_variance, catchment_variance,
                         fulfillment_rate, missing_items)
    IN  IF causes = <<>> /\ RLe(RAbs(entitlement_variance), NORMAL_VARIANCE_BAND)
        THEN <<NORMAL_VARIANCE, Rat(8, 10)>>
        ELSE IF causes # <<>>
        THEN SortCauses(causes)[1]
        ELSE <<NORMAL_VARIANCE, Rat(5, 10)>>

\* _generate_findings: one entry per sentence appended.
GenerateFindings(cause, missing_items) ==
    IF cause = CATCHMENT_DROP
    THEN <<"Catchment orders dropped", "Possible factors">>
    ELSE IF cause = ASSORTMENT_GAP
    THEN <<"Entitlement dropped while catchment remained stable">>
         \o (IF Truthy(missing_items) THEN <<"Found items NOT carried">> ELSE <<>>)
    ELSE IF cause = FULFILLMENT_ISSUE
    THEN <<"Fulfillment rate is only">>
    ELSE <<"Metrics are within normal variance">>

\* Mutant: the monitoring recommendation follows cause-specific ones only.
MutGenerateRecommendationsNoGeneric(cause) ==
    IF cause = CATCHMENT_DROP
    THEN <<"Monitor competitive activity", "Consider promotional campaigns",
           "Monitor metrics daily">>
    ELSE IF cause = ASSORTMENT_GAP
    THEN <<"Add missing items to assortment", "Review seasonal assortment planning",
           "Monitor metrics daily">>
    ELSE IF cause = FULFILLMENT_ISSUE
    THEN <<"Audit fulfillment operations", "Review delivery window constraints",
           "Monitor metrics daily">>
    ELSE <<>>

\* _generate_recommendations
GenerateRecommendations(cause) ==
    (IF cause = CATCHMENT_DROP
     THEN <<"Monitor competitive activity", "Consider promotional campaigns">>
     ELSE IF cause = ASSORTMENT_GAP
     THEN <<"Add missing items to assortment", "Review seasonal assortment planning">>
     ELSE IF cause = FULFILLMENT_ISSUE
     THEN <<"Audit fulfillment operations", "Review delivery window constraints">>
     ELSE <<>>)
    \o <<"Monitor metrics daily">>

\* analyze_entitlement_drop: the RootCauseAnalysis returned, or the exception
\* raised.
AnalyzeEntitlementDrop(current_data, baseline_data, missing_items) ==
    LET entitled_variance ==
            VarianceOf(current_data, "entitled_count", baseline_data, "avg_entitled")
        catchment_variance ==
            VarianceOf(current_data, "catchment_count", baseline_data, "avg_catchment")
        cb_variance ==
            VarianceOf(current_data, "attained_count", baseline_data, "avg_attained")
        fulfillment_rate == FulfillmentRateOf(current_data)
    IN  IF IsExc(entitled_variance) THEN entitled_variance
        ELSE IF IsExc(catchment_variance) THEN catchment_variance
        ELSE IF IsExc(cb_variance) THEN cb_variance
        ELSE IF IsExc(fulfillment_rate) THEN fulfillment_rate
        ELSE LET primary == DeterminePrimaryCause(entitled_variance,
                                catchment_variance, fulfillment_rate, missing_items)
             IN  [primary_cause |-> primary[1],
                  confidence_score |-> primary[2],
                  cb_variance_pct |-> cb_variance,
                  entitlement_variance_pct |-> entitled_variance,
                  catchment_variance_pct |-> catchment_variance,
                  fulfillment_rate_pct |-> fulfillment_rate,
                  findings |-> GenerateFindings(primary[1], missing_items),
                  missing_items_list |-> missing_items,
                  recommendations |-> GenerateRecommendations(primary[1])]

(***************************************************************************)
(* Inputs of the root-cause analysis: every snapshot with counts in        *)
(* 0..MaxCount, plus the snapshots of the documented scenarios.            *)
(***************************************************************************)
Counts == 0 .. MaxCount

Snapshot(c, e, a) == [catchment_count |-> c, entitled_count |-> e, attained_count |-> a]
Baseline(c, e, a) == [avg_catchment |-> c, avg_entitled |-> e, avg_attained |-> a]

\* <<current, baseline>>: entitlement variance -20, catchment variance -5,
\* fulfillment rate 90; and entitlement variance -5, catchment variance -2,
\* fulfillment rate 90.
ScenarioPairs ==
    { <<Snapshot(57, 40, 36), Baseline(60, 50, 40)>>,
      <<Snapshot(49, 190, 171), Baseline(50, 200, 180)>>,
      <<Snapshot(9, 4, 4), Baseline(10, 5, 4)>>,
      <<Snapshot(9, 5, 5), Baseline(10, 5, 5)>>,
      <<Snapshot(9, 4, 0), Baseline(10, 5, 4)>> }

\* Snapshots that lack entitled_count, against every baseline.
PartialPairs ==
    { <<[catchment_count |-> c, attained_count |-> a], Baseline(bc, be, ba)>> :
        c \in Counts, a \in Counts, bc \in Counts, be \in Counts, ba \in Counts }

SnapshotPairs ==
    { <<Snapshot(c, e, a), Baseline(bc, be, ba)>> :
        c \in Counts, e \in Counts, a \in Counts,
        bc \in Counts, be \in Counts, ba \in Counts }
    \cup ScenarioPairs
    \cup PartialPairs

Item(i) == [catlg_item_id |-> i]
ItemList(k) == List([i \in 1 .. k |-> Item(i)])
\* None, the empty list, and lists on both sides of the `len > 5` test.
MissingItemLists == {None} \cup { ItemList(k) : k \in {0} \cup (5 .. MaxMissing) }

(***************************************************************************)
(* ItemRecommender                                                         *)
(***************************************************************************)
\* int(x): truncation toward zero.
Trunc(x) == IF x.n >= 0 THEN x.n \div x.d ELSE -((-x.n) \div x.d)

RECURSIVE Pow2Floor(_)
Pow2Floor(v) == IF v < 2 THEN 1 ELSE 2 * Pow2Floor(v \div 2)

\* int(substitution_count * capture_rate) with capture_rate = 0.70, as IEEE-754
\* double arithmetic computes it.  The double 0.70 is 0.7 - 0.4 * 2^-53, so the
\* exact product is 0.7n - 0.4n * 2^-53, rounded to the nearest double.  When
\* 0.7n is not an integer its fractional part is at least 0.1 and int() gives
\* floor(0.7n).  When 0.7n is an integer v with 2^e <= v < 2^(e+1), the doubles
\* below v are 2^(e-52) apart: the product is rounded to a double below v, and
\* int() gives v - 1, exactly when 0.4n * 2^-53 > 2^(e-53), that is 2n > 5 * 2^e
\* (n = 90 gives 62.99999999999999, so 62).
IntTimesCaptureRate(n) ==
    LET v == (7 * n) \div 10
    IN  IF n > 0 /\ n % 10 = 0 /\ 2 * n > 5 * Pow2Floor(v) THEN v - 1 ELSE v

\* _derive_attained_from_cb
DeriveAttainedFromCb(cb_percent, catchment_count) ==
    IF catchment_count = 0 THEN 0
    ELSE LET q == TrueDiv(cb_percent, FromInt(100))
         IN  Trunc(RMul(q, FromInt(catchment_count)))

\* Mutant: the zero-catchment guard is missing.
MutNewCbPercentUnguarded(new_attained, current_catchment_count) ==
    LET q == TrueDiv(FromInt(new_attained), FromInt(current_catchment_count))
    IN  IF IsExc(q) THEN q ELSE RMul(q, FromInt(100))

\* (new_attained / current_catchment_count) * 100 if current_catchment_count > 0
\* else 0
NewCbPercent(new_attained, current_catchment_count) ==
    IF current_catchment_count > 0
    THEN LET q == TrueDiv(FromInt(new_attained), FromInt(current_catchment_count))
         IN  IF IsExc(q) THEN q ELSE RMul(q, FromInt(100))
    ELSE FromInt(0)

\* Mutant: the score is not clamped to 0.95.
MutConfidenceScoreUnclamped(order_count, substitution_rate, estimated_additional_orders) ==
    LET c1 == IF order_count >= 50 THEN Rat(25, 100)
              ELSE IF order_count >= 20 THEN Rat(15, 100)
              ELSE IF order_count >= 10 THEN Rat(5, 100)
              ELSE FromInt(0)
        c2 == IF RLe(Rat(5, 10), substitution_rate) THEN Rat(2, 10)
              ELSE IF RLe(Rat(3, 10), substitution_rate) THEN Rat(1, 10)
              ELSE FromInt(0)
        c3 == IF estimated_additional_orders >= 50 THEN Rat(1, 10)
              ELSE IF estimated_additional_orders >= 20 THEN Rat(5, 100)
              ELSE FromInt(0)
    IN  RAdd(RAdd(RAdd(Rat(5, 10), c1), c2), c3)

\* _calculate_confidence_score
CalculateConfidenceScore(order_count, substitution_rate, estimated_additional_orders) ==
    LET c1 == IF order_count >= 50 THEN Rat(25, 100)
              ELSE IF order_count >= 20 THEN Rat(15, 100)
              ELSE IF order_count >= 10 THEN Rat(5, 100)
              ELSE FromInt(0)
        c2 == IF RLe(Rat(5, 10), substitution_rate) THEN Rat(2, 10)
              ELSE IF RLe(Rat(3, 10), substitution_rate) THEN Rat(1, 10)
              ELSE FromInt(0)
        c3 == IF estimated_additional_orders >= 50 THEN Rat(1, 10)
              ELSE IF estimated_additional_orders >= 20 THEN Rat(5, 100)
              ELSE FromInt(0)
    IN  RMin(Rat(95, 100), RAdd(RAdd(RAdd(Rat(5, 10), c1), c2), c3))

\* _generate_rationale: the impact level of the sentence.
GenerateRationale(cb_lift) ==
    IF RLe(FromInt(2), cb_lift) THEN "HIGH IMPACT"
    ELSE IF RLe(FromInt(1), cb_lift) THEN "MEDIUM IMPACT"
    ELSE "LOW IMPACT"

\* item.get(key, default) of a str-typed field; a value of None is written
\* "None", which no name or category of the model's items equals.
GetStr(item, key, default) ==
    IF HasNone(item, key) THEN "None" ELSE Get(item, key, default)

\* item.get("catlg_item_id", "")
GetId(item) == IF HasNone(item, "catlg_item_id") THEN None ELSE Get(item, "catlg_item_id", "")

\* _simulate_item_impact: the ItemImpactSimulation returned, or the TypeError
\* that arithmetic on a count or rate of None raises, or the exception of
\* the division.
SimulateItemImpact(item, current_cb_percent, current_catchment_count, current_entitled_count) ==
    LET order_count == Get(item, "order_count", 0)
        substitution_count == Get(item, "substitution_count", 0)
        substitution_rate == Get(item, "substitution_rate", FromInt(0))
        estimated_additional_orders == IntTimesCaptureRate(substitution_count)
        current_attained ==
            DeriveAttainedFromCb(current_cb_percent, current_catchment_count)
        new_attained == current_attained + estimated_additional_orders
        new_cb_percent == NewCbPercent(new_attained, current_catchment_count)
    IN  IF \E key \in {"order_count", "substitution_count", "substitution_rate"} :
              HasNone(item, key)
        THEN Raised("TypeError")
        ELSE IF IsExc(new_cb_percent) THEN new_cb_percent
        ELSE LET cb_lift == RSub(new_cb_percent, current_cb_percent)
             IN  [item_id |-> GetId(item),
                  product_name |-> GetStr(item, "product_name", "Unknown"),
                  category |-> GetStr(item, "category", "Uncategorized"),
                  current_cb_percent |-> current_cb_percent,
                  projected_cb_percent |-> new_cb_percent,
                  cb_lift_percent |-> cb_lift,
                  estimated_additional_orders |-> estimated_additional_orders,
                  current_order_count |-> order_count,
                  substitution_count |-> substitution_count,
                  substitution_rate |-> substitution_rate,
                  avg_qty_per_order |->
                      IF HasNone(item, "avg_qty_per_order") THEN None
                      ELSE Get(item, "avg_qty_per_order", FromInt(1)),
                  confidence_score |->
                      CalculateConfidenceScore(order_count, substitution_rate,
                                               estimated_additional_orders),
                  rationale |-> GenerateRationale(cb_lift)]

\* simulations.sort(key=lambda x: x.cb_lift_percent, reverse=True): a stable
\* sort, descending by lift.
\* Mutant: an element is placed before the elements of equal lift (the sort is
\* not stable).
RECURSIVE MutInsertSimulationUnstable(_, _)
MutInsertSimulationUnstable(sorted, s) ==
    IF sorted = <<>> THEN <<s>>
    ELSE IF RLe(Head(sorted).cb_lift_percent, s.cb_lift_percent) THEN <<s>> \o sorted
    ELSE <<Head(sorted)>> \o MutInsertSimulationUnstable(Tail(sorted), s)

RECURSIVE InsertSimulation(_, _)
InsertSimulation(sorted, s) ==
    IF sorted = <<>> THEN <<s>>
    ELSE IF RLt(Head(sorted).cb_lift_percent, s.cb_lift_percent) THEN <<s>> \o sorted
    ELSE <<Head(sorted)>> \o InsertSimulation(Tail(sorted), s)

RECURSIVE SortSimulations(_)
SortSimulations(simulations) ==
    IF simulations = <<>> THEN <<>>
    ELSE InsertSimulation(
             SortSimulations(SubSeq(simulations, 1, Len(simulations) - 1)),
             simulations[Len(simulations)])

\* simulations[:top_n]
TopN(simulations, top_n) ==
    IF top_n >= 0
    THEN SubSeq(simulations, 1,
                IF top_n < Len(simulations) THEN top_n ELSE Len(simulations))
    ELSE SubSeq(simulations, 1,
                IF Len(simulations) + top_n > 0 THEN Len(simulations) + top_n ELSE 0)

\* recommend_items: the list returned, or the exception raised by the first
\* simulation that fails.
RecommendItems(missing_items, current_cb_percent, current_catchment_count, current_entitled_count, top_n) ==
    IF missing_items = <<>> THEN List(<<>>)
    ELSE LET simulations ==
                 [i \in 1 .. Len(missing_items) |->
                     SimulateItemImpact(missing_items[i], current_cb_percent,
                                        current_catchment_count,
                                        current_entitled_count)]
             failed == { i \in 1 .. Len(missing_items) : IsExc(simulations[i]) }
         IN  IF failed # {}
             THEN simulations[CHOOSE i \in failed : \A j \in failed : i <= j]
             ELSE List(TopN(SortSimulations(simulations), top_n))

NoResult == [tag |-> "none"]

InitRCA ==
    /\ op = "analyze_entitlement_drop"
    /\ \E p \in SnapshotPairs, m \in MissingItemLists :
         args = [current_data |-> p[1], baseline_data |-> p[2], missing_items |-> m]
    /\ result = NoResult
    /\ pc = "call"
    /\ Sequential

Analyze ==
    /\ pc = "call"
    /\ op = "analyze_entitlement_drop"
    /\ result' = AnalyzeEntitlementDrop(args.current_data, args.baseline_data,
                                        args.missing_items)
    /\ pc' = "done"
    /\ UNCHANGED <<op, args, frames, heap>>

(***************************************************************************)
(* Inputs of recommend_items: every ordering of up to MaxItems distinct    *)
(* catalogue items with every top_n in 0..MaxTopN, and every single item   *)
(* of the grid of field values around the tiers of the confidence score,   *)
(* with the default top_n.                                                 *)
(***************************************************************************)
CatalogueItem(id, category, orders, subs, rate) ==
    [catlg_item_id |-> id, category |-> category, order_count |-> orders,
     substitution_count |-> subs, substitution_rate |-> rate]

Catalogue ==
    { CatalogueItem(1, "Dairy", 40, 100, Rat(4, 10)),
      CatalogueItem(2, "Dairy", 50, 90, Rat(5, 10)),
      CatalogueItem(3, "Bakery", 10, 100, Rat(3, 10)),
      CatalogueItem(4, "Bakery", 9, 29, Rat(29, 100)),
      [catlg_item_id |-> 5, order_count |-> 0, substitution_count |-> 0,
       substitution_rate |-> FromInt(0)] }

Injective(s) == \A i, j \in DOMAIN s : s[i] = s[j] => i = j

CatalogueLists ==
    { s \in UNION { [1 .. k -> Catalogue] : k \in 0 .. MaxItems } : Injective(s) }

OrderCounts == {0, 9, 10, 19, 20, 40, 49, 50}
SubstitutionCounts == {0, 28, 29, 71, 72, 90, 100}
SubstitutionRates ==
    { FromInt(0), Rat(29, 100), Rat(3, 10), Rat(4, 10), Rat(49, 100), Rat(5, 10),
      FromInt(1) }

\* Two items whose substitution counts lie on either side of a multiple of 10
\* that int(n * 0.70) truncates, in both orders.
BoundaryLists ==
    LET a == CatalogueItem(7, "Dairy", 40, 89, Rat(4, 10))
        b == CatalogueItem(8, "Dairy", 40, 90, Rat(4, 10))
    IN  { <<a, b>>, <<b, a>> }

GridLists ==
    { << [catlg_item_id |-> 0, order_count |-> o, substitution_count |-> c,
          substitution_rate |-> r] >> :
        o \in OrderCounts, c \in SubstitutionCounts, r \in SubstitutionRates }

CbPercents == { FromInt(0), FromInt(50), FromInt(60), FromInt(100) }
CatchmentCounts == {0, 1, 100, 1000}
TOP_N_DEFAULT == 10

RecArgs(items, cb, catchment, entitled, n) ==
    [missing_items |-> items, current_cb_percent |-> cb,
     current_catchment_count |-> catchment, current_entitled_count |-> entitled,
     top_n |-> n]

InitRec ==
    /\ op = "recommend_items"
    /\ \E cb \in CbPercents, c \in CatchmentCounts :
         \E e \in {0, c} :
            \/ \E items \in CatalogueLists \cup BoundaryLists, n \in 0 .. MaxTopN :
                 args = RecArgs(items, cb, c, e, n)
            \/ \E items \in GridLists :
                 args = RecArgs(items, cb, c, e, TOP_N_DEFAULT)
    /\ result = NoResult
    /\ pc = "call"
    /\ Sequential

Recommend ==
    /\ pc = "call"
    /\ op = "recommend_items"
    /\ result' = RecommendItems(args.missing_items, args.current_cb_percent,
                                args.current_catchment_count,
                                args.current_entitled_count, args.top_n)
    /\ pc' = "done"
    /\ UNCHANGED <<op, args, frames, heap>>

(***************************************************************************)
(* recommend_category_focus (agents/item_recommender.py)                   *)
(***************************************************************************)
\* item.get("category", "Uncategorized")
CategoryOf(item) == GetStr(item, "category", "Uncategorized")

\* Mutant: a category's item_count is not increased after its first item.
MutAddToStatsCountOnce(stats, item) ==
    LET category == CategoryOf(item)
        order_count == Get(item, "order_count", 0)
    IN  IF \E i \in 1 .. Len(stats) : stats[i].category = category
        THEN [i \in 1 .. Len(stats) |->
                 IF stats[i].category = category
                 THEN [stats[i] EXCEPT !.total_orders = @ + order_count]
                 ELSE stats[i]]
        ELSE Append(stats, [category |-> category, item_count |-> 1,
                            total_orders |-> order_count])

\* One iteration of the loop over missing_items: category_stats, as the
\* sequence of its values in insertion order, after counting the item.
AddToStats(stats, item) ==
    LET category == CategoryOf(item)
        order_count == Get(item, "order_count", 0)
    IN  IF \E i \in 1 .. Len(stats) : stats[i].category = category
        THEN [i \in 1 .. Len(stats) |->
                 IF stats[i].category = category
                 THEN [stats[i] EXCEPT !.item_count = @ + 1,
                                       !.total_orders = @ + order_count]
                 ELSE stats[i]]
        ELSE Append(stats, [category |-> category, item_count |-> 1,
                            total_orders |-> order_count])

RECURSIVE CategoryStats(_)
CategoryStats(missing_items) ==
    IF missing_items = <<>> THEN <<>>
    ELSE AddToStats(CategoryStats(SubSeq(missing_items, 1, Len(missing_items) - 1)),
                    missing_items[Len(missing_items)])

\* sorted(..., key=total_orders, reverse=True): stable, equal totals keep
\* their insertion order.
RECURSIVE InsertCategory(_, _)
InsertCategory(sorted, c) ==
    IF sorted = <<>> THEN <<c>>
    ELSE IF Head(sorted).total_orders < c.total_orders THEN <<c>> \o sorted
    ELSE <<Head(sorted)>> \o InsertCategory(Tail(sorted), c)

RECURSIVE SortCategories(_)
SortCategories(stats) ==
    IF stats = <<>> THEN <<>>
    ELSE InsertCategory(SortCategories(SubSeq(stats, 1, Len(stats) - 1)),
                        stats[Len(stats)])

\* recommend_category_focus: the list returned, or the TypeError of adding
\* an order_count of None.
RecommendCategoryFocus(missing_items, top_n) ==
    IF \E i \in 1 .. Len(missing_items) : HasNone(missing_items[i], "order_count")
    THEN Raised("TypeError")
    ELSE List(TopN(SortCategories(CategoryStats(missing_items)), top_n))

(***************************************************************************)
(* Inputs of recommend_category_focus: every ordering of up to MaxItems    *)
(* distinct items of the catalogue and of a third category whose orders    *)
(* equal those of another, with every top_n in 0..MaxTopN.                 *)
(***************************************************************************)
CategoryCatalogue ==
    Catalogue \cup { CatalogueItem(6, "Produce", 50, 0, FromInt(0)) }

CategoryLists ==
    { s \in UNION { [1 .. k -> CategoryCatalogue] : k \in 0 .. MaxItems } : Injective(s) }

InitCat ==
    /\ op = "recommend_category_focus"
    /\ \E items \in CategoryLists, n \in 0 .. MaxTopN :
         args = [missing_items |-> items, top_n |-> n]
    /\ result = NoResult
    /\ pc = "call"
    /\ Sequential

CategoryFocus ==
    /\ pc = "call"
    /\ op = "recommend_category_focus"
    /\ result' = RecommendCategoryFocus(args.missing_items, args.top_n)
    /\ pc' = "done"
    /\ UNCHANGED <<op, args, frames, heap>>

(***************************************************************************)
(* render_recommendations (streamlit_app.py): the rows of the missing-items *)
(* query are converted to the recommender's records and ranked; any         *)
(* exception is caught and shown as an error.                               *)
(***************************************************************************)
\* The row key each key of a converted record is read from.
RowKeys ==
    [catlg_item_id |-> "CATLG_ITEM_ID", product_name |-> "PROD_NM",
     category |-> "CATEGORY", order_count |-> "ORDER_CNT",
     substitution_count |-> "SUBSTITUTION_CNT",
     substitution_rate |-> "SUBSTITUTION_RATE",
     avg_qty_per_order |-> "AVG_QTY_PER_ORDER"]

\* The defaults of the item.get calls that have one.
RowDefaults ==
    [order_count |-> 0, substitution_count |-> 0, substitution_rate |-> FromInt(0),
     avg_qty_per_order |-> FromInt(1)]

\* One element of converted_items: every key is set; item.get without a
\* default gives None for a key the row lacks.
ConvertItem(row) ==
    LET nones == { t \in DOMAIN RowKeys :
                     \/ HasNone(row, RowKeys[t])
                     \/ RowKeys[t] \notin DOMAIN row /\ t \notin DOMAIN RowDefaults }
    IN  [t \in DOMAIN RowKeys \ nones |->
            IF RowKeys[t] \in DOMAIN row THEN row[RowKeys[t]] ELSE RowDefaults[t]]
        @@ ("none_valued" :> nones)

\* render_recommendations after both queries have returned rows: what is
\* shown, with the recommendations when they are.
RenderRecommendations(missing_items, current) ==
    IF missing_items = <<>> THEN [shown |-> "info"]
    ELSE LET converted_items ==
                 [i \in 1 .. Len(missing_items) |-> ConvertItem(missing_items[i])]
             recommendations ==
                 RecommendItems(converted_items,
                                Get(current, "CB_PERCENT", FromInt(0)),
                                Get(current, "CATCHMENT_ORDER_CNT", 0),
                                Get(current, "ENTITLED_ORDER_CNT", 0),
                                TOP_N_DEFAULT)
         IN  IF IsExc(recommendations) THEN [shown |-> "error"]
             ELSE [shown |-> "recommendations", items |-> recommendations.items]

(***************************************************************************)
(* Inputs with missing fields: records in which one key is absent or is    *)
(* None, in batches of up to MaxBatch, and snapshots in which every count   *)
(* is absent, None, zero or positive.                                       *)
(***************************************************************************)
\* The dict `full` without the keys of absent, with the keys of nones set
\* to None and those of zeros set to 0.
Sparse(full, absent, nones, zeros) ==
    [k \in DOMAIN full \ (absent \cup nones) |-> IF k \in zeros THEN 0 ELSE full[k]]
    @@ ("none_valued" :> nones)

OptionalKeys == <<"product_name", "category", "order_count", "substitution_count", "substitution_rate">>

FullItem(id) ==
    [catlg_item_id |-> id, product_name |-> "Milk", category |-> "Dairy",
     order_count |-> 40, substitution_count |-> 100, substitution_rate |-> Rat(4, 10)]

SparseItems ==
    { Sparse(FullItem(0), {}, {}, {}) }
    \cup { Sparse(FullItem(10 + i), {OptionalKeys[i]}, {}, {}) : i \in 1 .. Len(OptionalKeys) }
    \cup { Sparse(FullItem(20 + i), {}, {OptionalKeys[i]}, {}) : i \in 1 .. Len(OptionalKeys) }

SparseBatches == UNION { [1 .. k -> SparseItems] : k \in 1 .. MaxBatch }

OptionalRowKeys == <<"PROD_NM", "CATEGORY", "ORDER_CNT", "SUBSTITUTION_CNT", "SUBSTITUTION_RATE">>

FullRow(id) ==
    [CATLG_ITEM_ID |-> id, PROD_NM |-> "Milk", CATEGORY |-> "Dairy",
     ORDER_CNT |-> 40, SUBSTITUTION_CNT |-> 100, SUBSTITUTION_RATE |-> Rat(4, 10)]

SparseRows ==
    { Sparse(FullRow(0), {}, {}, {}) }
    \cup { Sparse(FullRow(10 + i), {OptionalRowKeys[i]}, {}, {}) : i \in 1 .. Len(OptionalRowKeys) }
    \cup { Sparse(FullRow(20 + i), {}, {OptionalRowKeys[i]}, {}) : i \in 1 .. Len(OptionalRowKeys) }

SparseRowBatches == UNION { [1 .. k -> SparseRows] : k \in 1 .. MaxBatch }

MetricsRow == [CB_PERCENT |-> FromInt(60), CATCHMENT_ORDER_CNT |-> 1000, ENTITLED_ORDER_CNT |-> 800]

SparseSnapshots(full) ==
    { Sparse(full, t[1], t[2], t[3]) :
        t \in { u \in (SUBSET DOMAIN full) \X (SUBSET DOMAIN full) \X (SUBSET DOMAIN full) :
                  /\ u[1] \cap u[2] = {}
                  /\ u[3] \cap (u[1] \cup u[2]) = {} } }

CATEGORY_TOP_N_DEFAULT == 5

InitNull ==
    /\ \/ /\ op = "recommend_items"
          /\ \E items \in SparseBatches :
               args = RecArgs(items, FromInt(60), 1000, 800, TOP_N_DEFAULT)
       \/ /\ op = "recommend_category_focus"
          /\ \E items \in SparseBatches :
               args = [missing_items |-> items, top_n |-> CATEGORY_TOP_N_DEFAULT]
       \/ /\ op = "analyze_entitlement_drop"
          /\ \E c \in SparseSnapshots(Snapshot(57, 40, 36)),
                b \in SparseSnapshots(Baseline(60, 50, 40)) :
               args = [current_data |-> c, baseline_data |-> b, missing_items |-> None]
       \/ /\ op = "render_recommendations"
          /\ \E rows \in SparseRowBatches :
               args = [missing_items |-> rows, current |-> MetricsRow]
    /\ result = NoResult
    /\ pc = "call"
    /\ Sequential

Render ==
    /\ pc = "call"
    /\ op = "render_recommendations"
    /\ result' = RenderRecommendations(args.missing_items, args.current)
    /\ pc' = "done"
    /\ UNCHANGED <<op, args, frames, heap>>

(***************************************************************************)
(* QueryGenerator                                                          *)
(*                                                                         *)
(* A Python str is a sequence of one-character strings.                    *)
(***************************************************************************)
CB_TREND == "cb_trend"
ENTITLEMENT_DROP == "entitlement_drop"
MISSING_ITEMS == "missing_items"
ITEM_IMPACT == "item_impact"
CATCHMENT_ANALYSIS == "catchment_analysis"
FULFILLMENT_GAP == "fulfillment_gap"

\* The members of QuestionType in declaration order, which is also the
\* insertion order of the `keywords` dict.
QuestionTypes ==
    <<CB_TREND, ENTITLEMENT_DROP, MISSING_ITEMS, ITEM_IMPACT, CATCHMENT_ANALYSIS,
      FULFILLMENT_GAP>>

\* keywords[qtype], by position in QuestionTypes.
Keywords ==
    <<
       \* CB_TREND: trend, cb%, complete basket, over time
       << <<"t", "r", "e", "n", "d">>,
          <<"c", "b", "%">>,
          <<"c", "o", "m", "p", "l", "e", "t", "e", " ", "b", "a", "s", "k", "e", "t">>,
          <<"o", "v", "e", "r", " ", "t", "i", "m", "e">> >>,
       \* ENTITLEMENT_DROP: drop, why, entitle, decline
       << <<"d", "r", "o", "p">>,
          <<"w", "h", "y">>,
          <<"e", "n", "t", "i", "t", "l", "e">>,
          <<"d", "e", "c", "l", "i", "n", "e">> >>,
       \* MISSING_ITEMS: missing, items, carrying, assortment
       << <<"m", "i", "s", "s", "i", "n", "g">>,
          <<"i", "t", "e", "m", "s">>,
          <<"c", "a", "r", "r", "y", "i", "n", "g">>,
          <<"a", "s", "s", "o", "r", "t", "m", "e", "n", "t">> >>,
       \* ITEM_IMPACT: add, impact, if, would, increase
       << <<"a", "d", "d">>,
          <<"i", "m", "p", "a", "c", "t">>,
          <<"i", "f">>,
          <<"w", "o", "u", "l", "d">>,
          <<"i", "n", "c", "r", "e", "a", "s", "e">> >>,
       \* CATCHMENT_ANALYSIS: catchment, orders, demand
       << <<"c", "a", "t", "c", "h", "m", "e", "n", "t">>,
          <<"o", "r", "d", "e", "r", "s">>,
          <<"d", "e", "m", "a", "n", "d">> >>,
       \* FULFILLMENT_GAP: fulfillment, entitled, attained, gap
       << <<"f", "u", "l", "f", "i", "l", "l", "m", "e", "n", "t">>,
          <<"e", "n", "t", "i", "t", "l", "e", "d">>,
          <<"a", "t", "t", "a", "i", "n", "e", "d">>,
          <<"g", "a", "p">> >>
    >>

\* str.lower() on the characters of the model's alphabet.
LowerMap ==
    [A |-> "a", B |-> "b", C |-> "c", D |-> "d", E |-> "e", F |-> "f", G |-> "g", H |-> "h", I |-> "i", J |-> "j", K |-> "k", L |-> "l", M |-> "m",
     N |-> "n", O |-> "o", P |-> "p", Q |-> "q", R |-> "r", S |-> "s", T |-> "t", U |-> "u", V |-> "v", W |-> "w", X |-> "x", Y |-> "y", Z |-> "z"]

Lower(text) ==
    [i \in 1 .. Len(text) |->
        IF text[i] \in DOMAIN LowerMap THEN LowerMap[text[i]] ELSE text[i]]

\* kw in text
Contains(kw, text) ==
    \E i \in 1 .. (Len(text) - Len(kw) + 1) : SubSeq(text, i, i + Len(kw) - 1) = kw

\* sum(1 for kw in kwords if kw in question_lower)
CountMatches(kwords, question_lower) ==
    Cardinality({ i \in 1 .. Len(kwords) : Contains(kwords[i], question_lower) })

\* Mutant: a type also replaces the best one on an equal count (>= for >).
RECURSIVE MutDetectLoopLastWins(_, _, _, _)
MutDetectLoopLastWins(i, max_matches, detected_type, question_lower) ==
    IF i > Len(QuestionTypes) THEN detected_type
    ELSE LET matches == CountMatches(Keywords[i], question_lower)
         IN  IF matches >= max_matches
             THEN MutDetectLoopLastWins(i + 1, matches, QuestionTypes[i], question_lower)
             ELSE MutDetectLoopLastWins(i + 1, max_matches, detected_type, question_lower)

\* The loop of detect_question_type from its i-th iteration on.
RECURSIVE DetectLoop(_, _, _, _)
DetectLoop(i, max_matches, detected_type, question_lower) ==
    IF i > Len(QuestionTypes) THEN detected_type
    ELSE LET matches == CountMatches(Keywords[i], question_lower)
         IN  IF matches > max_matches
             THEN DetectLoop(i + 1, matches, QuestionTypes[i], question_lower)
             ELSE DetectLoop(i + 1, max_matches, detected_type, question_lower)

\* detect_question_type
DetectQuestionType(question) == DetectLoop(1, 0, CB_TREND, Lower(question))

\* The decimal digits; the value of a digit is its position less one.
Digits == <<"0", "1", "2", "3", "4", "5", "6", "7", "8", "9">>
IsDigit(c) == \E d \in 1 .. 10 : Digits[d] = c
DigitValue(c) == (CHOOSE d \in 1 .. 10 : Digits[d] = c) - 1

RECURSIVE DigitsValue(_)
DigitsValue(ds) ==
    IF ds = <<>> THEN 0
    ELSE 10 * DigitsValue(SubSeq(ds, 1, Len(ds) - 1)) + DigitValue(ds[Len(ds)])

RECURSIVE Strip(_)
Strip(text) ==
    IF text = <<>> THEN text
    ELSE IF Head(text) = " " THEN Strip(Tail(text))
    ELSE IF text[Len(text)] = " " THEN Strip(SubSeq(text, 1, Len(text) - 1))
    ELSE text

\* Mutant: a text that is no integer literal is read as 0 instead of raising.
MutPyIntLenient(text) ==
    LET t == Strip(text)
        signed == t # <<>> /\ t[1] \in {"+", "-"}
        body == IF signed THEN Tail(t) ELSE t
    IN  IF body = <<>> \/ \E i \in 1 .. Len(body) : ~IsDigit(body[i])
        THEN [int |-> 0]
        ELSE [int |-> (IF signed /\ t[1] = "-" THEN -1 ELSE 1) * DigitsValue(body)]

\* int(depot) of a str over the model's alphabet: surrounding whitespace is
\* dropped, then an optional sign and at least one digit must remain;
\* anything else raises ValueError.
PyInt(text) ==
    LET t == Strip(text)
        signed == t # <<>> /\ t[1] \in {"+", "-"}
        body == IF signed THEN Tail(t) ELSE t
    IN  IF body = <<>> \/ \E i \in 1 .. Len(body) : ~IsDigit(body[i])
        THEN Raised("ValueError")
        ELSE [int |-> (IF signed /\ t[1] = "-" THEN -1 ELSE 1) * DigitsValue(body)]

\* generate_cb_trend_query: the parameters of the text returned, or the
\* exception raised.
GenerateCbTrendQuery(depot, days_lookback) ==
    LET depot_int == PyInt(depot)
    IN  IF IsExc(depot_int) THEN depot_int
        ELSE [template |-> "cb_trend", table |-> "SUMMARY_TABLE",
              depot_int |-> depot_int.int, days_lookback |-> days_lookback]

\* generate_missing_items_query
GenerateMissingItemsQuery(depot, days_lookback, min_order_frequency) ==
    LET depot_int == PyInt(depot)
    IN  IF IsExc(depot_int) THEN depot_int
        ELSE [template |-> "missing_items", table |-> "V2_TABLE",
              depot_int |-> depot_int.int, days_lookback |-> days_lookback,
              min_order_frequency |-> min_order_frequency]

\* generate_entitlement_drop_query
GenerateEntitlementDropQuery(depot, compare_date, baseline_days) ==
    LET depot_int == PyInt(depot)
    IN  IF IsExc(depot_int) THEN depot_int
        ELSE [template |-> "entitlement_drop", depot_int |-> depot_int.int,
              compare_date |-> compare_date]

\* generate_item_frequency_query
GenerateItemFrequencyQuery(depot, days_lookback, limit) ==
    LET depot_int == PyInt(depot)
    IN  IF IsExc(depot_int) THEN depot_int
        ELSE [template |-> "item_frequency", limit |-> limit]

TREND_DAYS_DEFAULT == 30
MISSING_DAYS_DEFAULT == 7
FALLBACK_DAYS == 30
MIN_ORDER_FREQUENCY_DEFAULT == 5

\* Mutant: the fallback branch passes the caller's lookback on.
MutFallbackDays(kwargs) == Get(kwargs, "days_lookback", FALLBACK_DAYS)

\* The lookback of the query built for a type that has no branch of its own.
FallbackDays(kwargs) == FALLBACK_DAYS

\* generate_query_from_question: (sql, qtype, metadata), or the exception
\* raised.
GenerateQueryFromQuestion(question, depot, kwargs) ==
    LET qtype == DetectQuestionType(question)
        days == IF qtype = CB_TREND THEN Get(kwargs, "days_lookback", TREND_DAYS_DEFAULT)
                ELSE IF qtype = MISSING_ITEMS
                THEN Get(kwargs, "days_lookback", MISSING_DAYS_DEFAULT)
                ELSE FallbackDays(kwargs)
        sql == IF qtype = MISSING_ITEMS
               THEN GenerateMissingItemsQuery(depot, days, MIN_ORDER_FREQUENCY_DEFAULT)
               ELSE GenerateCbTrendQuery(depot, days)
        description ==
            IF qtype = CB_TREND THEN "CB% trend for {depot} (last {days} days)"
            ELSE IF qtype = MISSING_ITEMS THEN "Items ordered but not in assortment"
            ELSE "Analysis query"
    IN  IF IsExc(sql) THEN sql
        ELSE [sql |-> sql, qtype |-> qtype,
              metadata |-> [question |-> question, question_type |-> qtype,
                            depot |-> depot, description |-> description]]

(***************************************************************************)
(* Inputs of the query generator: the questions of up to MaxWords words of *)
(* a vocabulary separated by blanks, and depot identifiers that are and    *)
(* are not integer literals.                                               *)
(***************************************************************************)
Vocabulary ==
    { <<"W", "h", "y">>,
      <<"d", "r", "o", "p">>,
      <<"e", "n", "t", "i", "t", "l", "e", "d">>,
      <<"t", "r", "e", "n", "d">>,
      <<"m", "i", "s", "s", "i", "n", "g">>,
      <<"i", "t", "e", "m", "s">>,
      <<"g", "a", "p">>,
      <<"o", "r", "d", "e", "r", "s">>,
      <<"a", "d", "d">>,
      <<"h", "e", "l", "l", "o">> }

RECURSIVE Join(_)
Join(words) ==
    IF words = <<>> THEN <<>>
    ELSE IF Len(words) = 1 THEN words[1]
    ELSE words[1] \o <<" ">> \o Join(Tail(words))

Questions ==
    { Join(ws) : ws \in UNION { [1 .. k -> Vocabulary] : k \in 0 .. MaxWords } }

Depots ==
    { <<"7">>,
      <<" ", "4", "2", " ">>,
      <<"-", "3">>,
      <<"0", "0", "7">>,
      <<"a", "b", "c">>,
      <<>>,
      <<"1", "2", ".", "5">>,
      <<"4", " ", "2">> }

DaysLookbacks == {3, 7, 30, 90}
KwargsSet == { [k \in {} |-> 0] } \cup { [days_lookback |-> d] : d \in DaysLookbacks }

InitQG ==
    /\ \/ /\ op = "detect_question_type"
          /\ \E q \in Questions : args = [question |-> q]
       \/ /\ op = "generate_query_from_question"
          /\ \E q \in Questions, d \in Depots, kw \in KwargsSet :
               args = [question |-> q, depot |-> d, kwargs |-> kw]
       \/ /\ op = "generate_cb_trend_query"
          /\ \E d \in Depots, n \in DaysLookbacks :
               args = [depot |-> d, days_lookback |-> n]
       \/ /\ op = "generate_missing_items_query"
          /\ \E d \in Depots, n \in DaysLookbacks :
               args = [depot |-> d, days_lookback |-> n,
                       min_order_frequency |-> MIN_ORDER_FREQUENCY_DEFAULT]
       \/ /\ op = "generate_entitlement_drop_query"
          /\ \E d \in Depots, n \in DaysLookbacks :
               args = [depot |-> d, compare_date |-> "2024-01-15", baseline_days |-> n]
       \/ /\ op = "generate_item_frequency_query"
          /\ \E d \in Depots, n \in DaysLookbacks :
               args = [depot |-> d, days_lookback |-> n, limit |-> 50]
    /\ result = NoResult
    /\ pc = "call"
    /\ Sequential

\* The str result of detect_question_type as a value with fields.
Detect ==
    /\ pc = "call"
    /\ op = "detect_question_type"
    /\ result' = [qtype |-> DetectQuestionType(args.question)]
    /\ pc' = "done"
    /\ UNCHANGED <<op, args, frames, heap>>

GenerateFromQuestion ==
    /\ pc = "call"
    /\ op = "generate_query_from_question"
    /\ result' = GenerateQueryFromQuestion(args.question, args.depot, args.kwargs)
    /\ pc' = "done"
    /\ UNCHANGED <<op, args, frames, heap>>

CbTrendQuery ==
    /\ pc = "call"
    /\ op = "generate_cb_trend_query"
    /\ result' = GenerateCbTrendQuery(args.depot, args.days_lookback)
    /\ pc' = "done"
    /\ UNCHANGED <<op, args, frames, heap>>

MissingItemsQuery ==
    /\ pc = "call"
    /\ op = "generate_missing_items_query"
    /\ result' = GenerateMissingItemsQuery(args.depot, args.days_lookback,
                                           args.min_order_frequency)
    /\ pc' = "done"
    /\ UNCHANGED <<op, args, frames, heap>>

EntitlementDropQuery ==
    /\ pc = "call"
    /\ op = "generate_entitlement_drop_query"
    /\ result' = GenerateEntitlementDropQuery(args.depot, args.compare_date,
                                              args.baseline_days)
    /\ pc' = "done"
    /\ UNCHANGED <<op, args, frames, heap>>

ItemFrequencyQuery ==
    /\ pc = "call"
    /\ op = "generate_item_frequency_query"
    /\ result' = GenerateItemFrequencyQuery(args.depot, args.days_lookback, args.limit)
    /\ pc' = "done"
    /\ UNCHANGED <<op, args, frames, heap>>

(***************************************************************************)
(* Concurrent calls.  Threads call detect_question_type, recommend_items,  *)
(* recommend_category_focus and analyze_entitlement_drop on the same       *)
(* engine instances with the same argument objects; a step of a thread is  *)
(* a block of statements between two reads of a shared object.  frames     *)
(* holds each thread's call (operation, position, local variables, return  *)
(* value), heap the shared objects.                                        *)
(***************************************************************************)
Threads == 1 .. MaxThreads

ConcOps ==
    {"detect_question_type", "recommend_items", "recommend_category_focus",
     "analyze_entitlement_drop"}

\* The attributes of the engine classes and instances.
EngineAttributes ==
    [RootCauseAnalyzer |->
        [CATCHMENT_DROP_THRESHOLD |-> CATCHMENT_DROP_THRESHOLD,
         ENTITLEMENT_DROP_THRESHOLD |-> ENTITLEMENT_DROP_THRESHOLD,
         FULFILLMENT_ISSUE_THRESHOLD |-> FULFILLMENT_ISSUE_THRESHOLD,
         NORMAL_VARIANCE_BAND |-> NORMAL_VARIANCE_BAND],
     ItemRecommender |-> [logger |-> "logger"],
     QueryGenerator |-> [project_id |-> "wmt-instockinventory-datamart"]]

\* The frame of a call that has not taken a step.
Frame(o) == [op |-> o, pc |-> "call", locals |-> <<>>, returned |-> NoResult]

ConcQuestions ==
    { <<"W", "h", "y", " ", "g", "a", "p">>, <<"t", "r", "e", "n", "d">>,
      <<"a", "d", "d">> }

ConcCatalogue == { c \in Catalogue : c.catlg_item_id \in {2, 3} }

ConcItemLists ==
    { l \in UNION { [1 .. k -> ConcCatalogue] : k \in 0 .. Cardinality(ConcCatalogue) } :
        Injective(l) }

ConcSnapshotPairs ==
    { <<Snapshot(57, 40, 36), Baseline(60, 50, 40)>>,
      <<Snapshot(9, 4, 0), Baseline(10, 5, 4)>> }

InitConc ==
    /\ op = "threads"
    /\ args = <<>>
    /\ result = NoResult
    /\ pc = "threads"
    /\ frames \in [Threads -> { Frame(o) : o \in ConcOps }]
    /\ \E q \in ConcQuestions, items \in ConcItemLists, p \in ConcSnapshotPairs :
         heap = [self |-> EngineAttributes, question |-> q, missing_items |-> items,
                 current_data |-> p[1], baseline_data |-> p[2],
                 current_cb_percent |-> FromInt(60), current_catchment_count |-> 1000,
                 current_entitled_count |-> 800, top_n |-> 1]

\* Thread t is in operation o at position p.
At(t, o, p) == frames[t].op = o /\ frames[t].pc = p

\* Thread t goes on to position p with the local variables l.
GoOn(t, p, l) ==
    /\ frames' = [frames EXCEPT ![t].pc = p, ![t].locals = l]
    /\ UNCHANGED <<op, args, result, pc>>

\* Thread t returns (or raises) value.
Return(t, value) ==
    /\ frames' = [frames EXCEPT ![t].pc = "done", ![t].returned = value]
    /\ UNCHANGED <<op, args, result, pc>>

\* detect_question_type: question_lower = question.lower()
ConcLower(t) ==
    /\ At(t, "detect_question_type", "call")
    /\ GoOn(t, "loop", [question_lower |-> Lower(heap.question)])
    /\ UNCHANGED heap

\* detect_question_type: the loop over the keywords, and the return.
ConcDetect(t) ==
    /\ At(t, "detect_question_type", "loop")
    /\ Return(t, [qtype |-> DetectLoop(1, 0, CB_TREND, frames[t].locals.question_lower)])
    /\ UNCHANGED heap

\* recommend_items: the test of the list, and simulations = [].
ConcRecStart(t) ==
    /\ At(t, "recommend_items", "call")
    /\ IF heap.missing_items = <<>> THEN Return(t, List(<<>>))
       ELSE GoOn(t, "loop", [simulations |-> <<>>])
    /\ UNCHANGED heap

\* recommend_items: one iteration of the loop over missing_items.
ConcSimulate(t) ==
    /\ At(t, "recommend_items", "loop")
    /\ Len(frames[t].locals.simulations) < Len(heap.missing_items)
    /\ LET item == heap.missing_items[Len(frames[t].locals.simulations) + 1]
           simulation ==
               SimulateItemImpact(item, heap.current_cb_percent,
                                  heap.current_catchment_count,
                                  heap.current_entitled_count)
       IN  IF IsExc(simulation) THEN Return(t, simulation)
           ELSE GoOn(t, "loop",
                     [simulations |-> Append(frames[t].locals.simulations, simulation)])
    /\ UNCHANGED heap

\* Mutant: the caller's list is sorted in place as well (here: reversed).
MutConcSortInPlace(t) ==
    /\ At(t, "recommend_items", "loop")
    /\ Len(frames[t].locals.simulations) >= Len(heap.missing_items)
    /\ Return(t, List(TopN(SortSimulations(frames[t].locals.simulations), heap.top_n)))
    /\ heap' = [heap EXCEPT !.missing_items =
                   [i \in 1 .. Len(@) |-> @[Len(@) + 1 - i]]]

\* recommend_items: simulations.sort(...) on the local list, and the return.
ConcSort(t) ==
    /\ At(t, "recommend_items", "loop")
    /\ Len(frames[t].locals.simulations) >= Len(heap.missing_items)
    /\ Return(t, List(TopN(SortSimulations(frames[t].locals.simulations), heap.top_n)))
    /\ UNCHANGED heap

\* recommend_category_focus: category_stats = {}
ConcCatStart(t) ==
    /\ At(t, "recommend_category_focus", "call")
    /\ GoOn(t, "loop", [category_stats |-> <<>>, i |-> 0])
    /\ UNCHANGED heap

\* recommend_category_focus: one iteration of the loop over missing_items.
ConcCount(t) ==
    /\ At(t, "recommend_category_focus", "loop")
    /\ frames[t].locals.i < Len(heap.missing_items)
    /\ LET item == heap.missing_items[frames[t].locals.i + 1]
       IN  IF HasNone(item, "order_count") THEN Return(t, Raised("TypeError"))
           ELSE GoOn(t, "loop",
                     [category_stats |-> AddToStats(frames[t].locals.category_stats, item),
                      i |-> frames[t].locals.i + 1])
    /\ UNCHANGED heap

\* recommend_category_focus: sorted(...), and the return.
ConcCatSort(t) ==
    /\ At(t, "recommend_category_focus", "loop")
    /\ frames[t].locals.i >= Len(heap.missing_items)
    /\ Return(t, List(TopN(SortCategories(frames[t].locals.category_stats),
                           CATEGORY_TOP_N_DEFAULT)))
    /\ UNCHANGED heap

\* analyze_entitlement_drop: the variances and the fulfillment rate.
ConcVariances(t) ==
    /\ At(t, "analyze_entitlement_drop", "call")
    /\ LET l == [entitled_variance |->
                     VarianceOf(heap.current_data, "entitled_count",
                                heap.baseline_data, "avg_entitled"),
                 catchment_variance |->
                     VarianceOf(heap.current_data, "catchment_count",
                                heap.baseline_data, "avg_catchment"),
                 cb_variance |->
                     VarianceOf(heap.current_data, "attained_count",
                                heap.baseline_data, "avg_attained"),
                 fulfillment_rate |-> FulfillmentRateOf(heap.current_data)]
       IN  IF \E k \in DOMAIN l : IsExc(l[k])
           THEN Return(t, l[CHOOSE k \in DOMAIN l : IsExc(l[k])])
           ELSE GoOn(t, "loop", l)
    /\ UNCHANGED heap

\* analyze_entitlement_drop: the cause, the findings, the recommendations
\* and the RootCauseAnalysis returned, which holds the caller's list.
ConcCause(t) ==
    /\ At(t, "analyze_entitlement_drop", "loop")
    /\ LET l == frames[t].locals
           missing_items == List(heap.missing_items)
           primary == DeterminePrimaryCause(l.entitled_variance, l.catchment_variance,
                                            l.fulfillment_rate, missing_items)
       IN  Return(t, [primary_cause |-> primary[1],
                      confidence_score |-> primary[2],
                      cb_variance_pct |-> l.cb_variance,
                      entitlement_variance_pct |-> l.entitled_variance,
                      catchment_variance_pct |-> l.catchment_variance,
                      fulfillment_rate_pct |-> l.fulfillment_rate,
                      findings |-> GenerateFindings(primary[1], missing_items),
                      missing_items_list |-> missing_items,
                      recommendations |-> GenerateRecommendations(primary[1])])
    /\ UNCHANGED heap

\* A thread whose call has returned makes another call.
ConcCall(t) ==
    /\ frames[t].pc = "done"
    /\ \E o \in ConcOps : frames' = [frames EXCEPT ![t] = Frame(o)]
    /\ UNCHANGED <<op, args, result, pc, heap>>

(***************************************************************************)
(* Properties of the root-cause analysis (checked under SpecRCA).          *)
(***************************************************************************)
RcaDone == op = "analyze_entitlement_drop" /\ pc = "done"
RcaReturned == RcaDone /\ ~IsExc(result)

\* The candidate list of the finished call, from the variances it reports.
RcaCauses ==
    Causes(result.entitlement_variance_pct, result.catchment_variance_pct,
           result.fulfillment_rate_pct, args.missing_items)

RcaMissingLen ==
    IF args.missing_items.tag = "list" THEN PyLen(args.missing_items) ELSE 0

\* C1: when at least one cause qualifies, the primary cause returned is the
\* qualifying candidate of highest confidence, with that candidate's
\* confidence, and among candidates of equal confidence the first in the order
\* catchment-drop, assortment-gap, fulfillment-issue.
C1_HighestConfidenceWins ==
    (RcaReturned /\ RcaCauses # <<>>) =>
        \E i \in 1 .. Len(RcaCauses) :
            /\ result.primary_cause = RcaCauses[i][1]
            /\ result.confidence_score = RcaCauses[i][2]
            /\ \A j \in 1 .. Len(RcaCauses) : RLe(RcaCauses[j][2], RcaCauses[i][2])
            /\ \A j \in 1 .. (i - 1) : RLt(RcaCauses[j][2], RcaCauses[i][2])

\* Two causes qualify and the call has returned.
C1_Witness ==
    /\ RcaReturned
    /\ Len(RcaCauses) >= 2
    /\ result.primary_cause = CATCHMENT_DROP

\* C2 (as claimed): whenever the fulfillment rate is in [0, 75) and neither
\* catchment-drop nor assortment-gap qualifies, the analysis returns
\* FULFILLMENT_ISSUE with confidence (1 - rate/100) * 0.8.
C2_FulfillmentBelow75 ==
    ( /\ RcaReturned
      /\ RLe(FromInt(0), result.fulfillment_rate_pct)
      /\ RLt(result.fulfillment_rate_pct, FromInt(75))
      /\ ~RLt(result.catchment_variance_pct, FromInt(-10))
      /\ ~( /\ RLt(result.entitlement_variance_pct, FromInt(-15))
            /\ RLt(FromInt(-10), result.catchment_variance_pct) ) )
    => /\ result.primary_cause = FULFILLMENT_ISSUE
       /\ result.confidence_score =
              RMul(RSub(FromInt(1), TrueDiv(result.fulfillment_rate_pct, FromInt(100))),
                   Rat(8, 10))

\* C3 (as claimed): the confidence returned by the analysis lies in
\* [0.5, 0.95].
C3_ConfidenceInRange ==
    RcaReturned =>
        /\ RLe(Rat(5, 10), result.confidence_score)
        /\ RLe(result.confidence_score, Rat(95, 100))

\* The confidence the claim gives the assortment-gap candidate.
C4_Confidence ==
    LET confidence ==
            RAdd(Rat(7, 10), TrueDiv(RAbs(result.entitlement_variance_pct), FromInt(100)))
    IN  IF RcaMissingLen > 5
        THEN RMin(Rat(95, 100), RAdd(confidence, Rat(1, 10)))
        ELSE confidence

C4_Qualifies ==
    /\ RLt(result.entitlement_variance_pct, FromInt(-15))
    /\ RLt(FromInt(-10), result.catchment_variance_pct)

C4_Scenario ==
    /\ result.entitlement_variance_pct = FromInt(-20)
    /\ result.catchment_variance_pct = FromInt(-5)
    /\ result.fulfillment_rate_pct = FromInt(90)
    /\ RcaMissingLen = 6

\* C4: assortment-gap is a candidate exactly when the entitlement variance is
\* below -15 and the catchment variance above -10; its confidence is
\* 0.7 + |entitlement variance|/100, replaced by min(0.95, that + 0.1) when more
\* than 5 missing items are given; with variances -20 and -5, fulfillment rate
\* 90 and 6 missing items the analysis returns ASSORTMENT_GAP at 0.95.
C4_AssortmentGap ==
    RcaReturned =>
        /\ C4_Qualifies <=>
              (\E i \in 1 .. Len(RcaCauses) : RcaCauses[i][1] = ASSORTMENT_GAP)
        /\ C4_Qualifies <=> (result.primary_cause = ASSORTMENT_GAP)
        /\ C4_Qualifies => result.confidence_score = C4_Confidence
        /\ C4_Scenario =>
              /\ result.primary_cause = ASSORTMENT_GAP
              /\ result.confidence_score = Rat(95, 100)

C4_Witness ==
    /\ RcaReturned
    /\ C4_Scenario
    /\ result.primary_cause = ASSORTMENT_GAP
    /\ result.confidence_score = Rat(95, 100)

C5_Scenario ==
    /\ result.entitlement_variance_pct = FromInt(-5)
    /\ result.catchment_variance_pct = FromInt(-2)
    /\ result.fulfillment_rate_pct = FromInt(90)

\* C5: when no cause qualifies the analysis returns NORMAL_VARIANCE, at 0.8 if
\* |entitlement variance| <= 10 and at 0.5 otherwise; every NORMAL_VARIANCE
\* result has confidence 0.8 or 0.5, and 0.5 exactly in the out-of-band case;
\* variances -5 and -2 with fulfillment rate 90 give NORMAL_VARIANCE at 0.8.
C5_NormalVariance ==
    RcaReturned =>
        LET inBand == RLe(RAbs(result.entitlement_variance_pct), FromInt(10))
        IN  /\ (RcaCauses = <<>>) <=> (result.primary_cause = NORMAL_VARIANCE)
            /\ result.primary_cause = NORMAL_VARIANCE =>
                  /\ inBand => result.confidence_score = Rat(8, 10)
                  /\ ~inBand => result.confidence_score = Rat(5, 10)
            /\ C5_Scenario =>
                  /\ result.primary_cause = NORMAL_VARIANCE
                  /\ result.confidence_score = Rat(8, 10)

\* The out-of-band fallback is taken.
C5_Witness ==
    /\ RcaReturned
    /\ result.primary_cause = NORMAL_VARIANCE
    /\ result.confidence_score = Rat(5, 10)
    /\ ~RLe(RAbs(result.entitlement_variance_pct), FromInt(10))

\* C6: the analysis returns a result for every combination of counts; each of
\* the three variances is 0 when its baseline is 0, and the fulfillment rate is
\* 0 when the entitled count is 0.
C6_DivisionGuarded ==
    RcaDone =>
        /\ ~IsExc(result)
        /\ Get(args.baseline_data, "avg_entitled", 0) = 0 =>
              result.entitlement_variance_pct = FromInt(0)
        /\ Get(args.baseline_data, "avg_catchment", 0) = 0 =>
              result.catchment_variance_pct = FromInt(0)
        /\ Get(args.baseline_data, "avg_attained", 0) = 0 =>
              result.cb_variance_pct = FromInt(0)
        /\ Get(args.current_data, "entitled_count", 0) = 0 =>
              result.fulfillment_rate_pct = FromInt(0)

\* A call with a zero baseline, a zero entitled count and non-zero current
\* counts has returned.
C6_Witness ==
    /\ RcaReturned
    /\ args.baseline_data = Baseline(0, 0, 0)
    /\ args.current_data = Snapshot(2, 0, 1)

(***************************************************************************)
(* Properties of recommend_items (checked under SpecRec).                  *)
(***************************************************************************)
RecDone == op = "recommend_items" /\ pc = "done"
RecReturned == RecDone /\ ~IsExc(result)

Floor(x) == x.n \div x.d

\* C7 (as claimed): with catchment_count > 0 every simulation has
\* estimated_additional_orders = floor(substitution_count * 0.70),
\* projected_cb_percent = (floor(cb/100 * catchment) + estimated) / catchment * 100
\* and cb_lift_percent = projected - current; CB% 60, catchment 1000 and
\* substitution_count 100 give 70 orders, projected 67 and lift 7.
C7_SimulatorFormulas ==
    (RecReturned /\ args.current_catchment_count > 0) =>
        \A k \in 1 .. Len(result.items) :
            LET r == result.items[k]
                estimated == Floor(Rat(r.substitution_count * 70, 100))
                attained ==
                    Floor(RMul(Rat(args.current_cb_percent.n,
                                   args.current_cb_percent.d * 100),
                               FromInt(args.current_catchment_count)))
                projected ==
                    Rat((attained + estimated) * 100, args.current_catchment_count)
            IN  /\ r.estimated_additional_orders = estimated
                /\ r.projected_cb_percent = projected
                /\ r.cb_lift_percent = RSub(projected, args.current_cb_percent)
                /\ ( /\ args.current_cb_percent = FromInt(60)
                     /\ args.current_catchment_count = 1000
                     /\ r.substitution_count = 100 )
                   => /\ r.estimated_additional_orders = 70
                      /\ r.projected_cb_percent = FromInt(67)
                      /\ r.cb_lift_percent = FromInt(7)

\* C8: with current_catchment_count = 0 the call returns without error, the
\* derived attained count is 0 and every projected_cb_percent is 0.
C8_ZeroCatchment ==
    (RecDone /\ args.current_catchment_count = 0) =>
        /\ ~IsExc(result)
        /\ DeriveAttainedFromCb(args.current_cb_percent,
                                args.current_catchment_count) = 0
        /\ \A k \in 1 .. Len(result.items) :
              result.items[k].projected_cb_percent = FromInt(0)

C8_Witness ==
    /\ RecReturned
    /\ args.current_catchment_count = 0
    /\ args.current_cb_percent = FromInt(60)
    /\ Len(result.items) = 2
    /\ result.items[1].estimated_additional_orders > 0

\* The score of the claim, in hundredths: 50, plus the highest matching tier
\* of each group, at most 95.
C9_Hundredths(order_count, substitution_rate, estimated) ==
    LET total ==
            50
            + (IF order_count >= 50 THEN 25 ELSE IF order_count >= 20 THEN 15
               ELSE IF order_count >= 10 THEN 5 ELSE 0)
            + (IF RLe(Rat(1, 2), substitution_rate) THEN 20
               ELSE IF RLe(Rat(3, 10), substitution_rate) THEN 10 ELSE 0)
            + (IF estimated >= 50 THEN 10 ELSE IF estimated >= 20 THEN 5 ELSE 0)
    IN  IF total > 95 THEN 95 ELSE total

\* C9: the confidence_score of every simulation is in [0.50, 0.95] and equals
\* 0.50 plus the tier of order_count, of substitution_rate and of
\* estimated_additional_orders, clamped to 0.95; order_count 40, rate 0.4 and 70
\* additional orders give 0.85.
C9_SimulatorConfidence ==
    RecReturned =>
        \A k \in 1 .. Len(result.items) :
            LET r == result.items[k]
            IN  /\ RLe(Rat(50, 100), r.confidence_score)
                /\ RLe(r.confidence_score, Rat(95, 100))
                /\ r.confidence_score =
                      Rat(C9_Hundredths(r.current_order_count, r.substitution_rate,
                                        r.estimated_additional_orders), 100)
                /\ ( /\ r.current_order_count = 40
                     /\ r.substitution_rate = Rat(4, 10)
                     /\ r.estimated_additional_orders = 70 )
                   => r.confidence_score = Rat(85, 100)

\* A simulation whose unclamped score is 1.05 has been returned at 0.95.
C9_Witness ==
    /\ RecReturned
    /\ \E k \in 1 .. Len(result.items) :
          /\ result.items[k].current_order_count = 50
          /\ result.items[k].substitution_rate = Rat(5, 10)
          /\ result.items[k].estimated_additional_orders >= 50
          /\ result.items[k].confidence_score = Rat(95, 100)

\* The lift of an input item, and the place of an item in the input.
C10_Lift(item) ==
    SimulateItemImpact(item, args.current_cb_percent, args.current_catchment_count,
                       args.current_entitled_count).cb_lift_percent

C10_Pos(id) ==
    CHOOSE i \in 1 .. Len(args.missing_items) : args.missing_items[i].catlg_item_id = id

\* C10: for every input list (every ordering of it) and every top_n >= 0 the
\* call returns min(top_n, number of items) results, each the simulation of a
\* different input item, in descending order of cb_lift_percent, items of equal
\* lift in their input order, and no omitted item has a greater lift than a
\* returned one; an empty input gives an empty result.
C10_RankedTopN ==
    RecDone =>
        /\ ~IsExc(result)
        /\ LET out == result.items
               inp == args.missing_items
               ids == { out[k].item_id : k \in 1 .. Len(out) }
           IN  /\ Len(out) = IF args.top_n < Len(inp) THEN args.top_n ELSE Len(inp)
               /\ \A k \in 1 .. Len(out) :
                     \E i \in 1 .. Len(inp) :
                        out[k] = SimulateItemImpact(inp[i], args.current_cb_percent,
                                                    args.current_catchment_count,
                                                    args.current_entitled_count)
               /\ \A k, l \in 1 .. Len(out) :
                     k < l =>
                        /\ out[k].item_id # out[l].item_id
                        /\ RLe(out[l].cb_lift_percent, out[k].cb_lift_percent)
                        /\ out[k].cb_lift_percent = out[l].cb_lift_percent =>
                              C10_Pos(out[k].item_id) < C10_Pos(out[l].item_id)
               /\ \A i \in 1 .. Len(inp) :
                     inp[i].catlg_item_id \notin ids =>
                        \A k \in 1 .. Len(out) :
                           RLe(C10_Lift(inp[i]), out[k].cb_lift_percent)
               /\ inp = <<>> => out = <<>>

\* Three items, two of them of equal lift, given in an order that is not the
\* order of their lifts, and cut to two.
C10_Witness ==
    /\ RecReturned
    /\ Len(args.missing_items) = 3
    /\ args.top_n = 2
    /\ args.current_catchment_count > 0
    /\ Len(result.items) = 2
    /\ result.items[1].cb_lift_percent = result.items[2].cb_lift_percent
    /\ result.items[1].item_id # args.missing_items[1].catlg_item_id

\* floor(0.70 * substitution_count) of a returned simulation.
C20_Estimate(r) == Floor(Rat(r.substitution_count * 70, 100))

\* C20 (as claimed): every simulation reports estimated_additional_orders =
\* floor(0.70 * substitution_count) and, with a positive catchment count,
\* the results are in descending order of that estimate, equal estimates in
\* input order, whatever the other fields are; with a catchment count of 0
\* every lift is -current_cb_percent and the result is the first top_n
\* items in input order.
C20_RankedByEstimate ==
    RecReturned =>
        LET out == result.items
            inp == args.missing_items
        IN  /\ \A k \in 1 .. Len(out) :
                  out[k].estimated_additional_orders = C20_Estimate(out[k])
            /\ args.current_catchment_count > 0 =>
                  \A k, l \in 1 .. Len(out) :
                     k < l =>
                        /\ C20_Estimate(out[k]) >= C20_Estimate(out[l])
                        /\ C20_Estimate(out[k]) = C20_Estimate(out[l]) =>
                              C10_Pos(out[k].item_id) < C10_Pos(out[l].item_id)
            /\ args.current_catchment_count = 0 =>
                  /\ Len(out) = IF args.top_n < Len(inp) THEN args.top_n ELSE Len(inp)
                  /\ \A k \in 1 .. Len(out) :
                        /\ out[k].cb_lift_percent =
                               RSub(FromInt(0), args.current_cb_percent)
                        /\ out[k].item_id = inp[k].catlg_item_id

(***************************************************************************)
(* Further properties of the root-cause analysis (checked under SpecRCA)   *)
(***************************************************************************)
Qualifies(cause) == \E i \in 1 .. Len(RcaCauses) : RcaCauses[i][1] = cause
GENERIC_RECOMMENDATION == "Monitor metrics daily"

\* C16: every result has a non-empty findings list that begins with the
\* sentence of the selected cause, and a recommendations list that ends with
\* the one generic monitoring recommendation, after exactly two
\* recommendations of the cause for catchment-drop, assortment-gap and
\* fulfillment-issue and after none for normal variance.
C16_FindingsAndRecommendations ==
    RcaReturned =>
        LET recs == result.recommendations
            specific ==
                IF result.primary_cause = CATCHMENT_DROP
                THEN <<"Monitor competitive activity", "Consider promotional campaigns">>
                ELSE IF result.primary_cause = ASSORTMENT_GAP
                THEN <<"Add missing items to assortment",
                       "Review seasonal assortment planning">>
                ELSE IF result.primary_cause = FULFILLMENT_ISSUE
                THEN <<"Audit fulfillment operations", "Review delivery window constraints">>
                ELSE <<>>
            first ==
                IF result.primary_cause = CATCHMENT_DROP THEN "Catchment orders dropped"
                ELSE IF result.primary_cause = ASSORTMENT_GAP
                THEN "Entitlement dropped while catchment remained stable"
                ELSE IF result.primary_cause = FULFILLMENT_ISSUE
                THEN "Fulfillment rate is only"
                ELSE "Metrics are within normal variance"
        IN  /\ result.findings # <<>>
            /\ result.findings[1] = first
            /\ recs # <<>>
            /\ recs[Len(recs)] = GENERIC_RECOMMENDATION
            /\ Cardinality({i \in 1 .. Len(recs) : recs[i] = GENERIC_RECOMMENDATION}) = 1
            /\ SubSeq(recs, 1, Len(recs) - 1) = specific
            /\ Len(recs) = IF result.primary_cause = NORMAL_VARIANCE THEN 1 ELSE 3

\* A normal-variance result outside the band has been returned with one
\* finding and the generic recommendation alone.
C16_Witness ==
    /\ RcaReturned
    /\ result.primary_cause = NORMAL_VARIANCE
    /\ result.confidence_score = Rat(5, 10)
    /\ result.findings = <<"Metrics are within normal variance">>
    /\ result.recommendations = <<GENERIC_RECOMMENDATION>>

\* C18: the primary cause is the one a strict priority chain gives:
\* catchment-drop when it qualifies, else assortment-gap when it qualifies,
\* else fulfillment-issue when it qualifies, else normal variance; and the
\* same inputs with any other missing-items list give the same primary cause.
C18_PriorityChain ==
    RcaReturned =>
        /\ result.primary_cause =
               IF Qualifies(CATCHMENT_DROP) THEN CATCHMENT_DROP
               ELSE IF Qualifies(ASSORTMENT_GAP) THEN ASSORTMENT_GAP
               ELSE IF Qualifies(FULFILLMENT_ISSUE) THEN FULFILLMENT_ISSUE
               ELSE NORMAL_VARIANCE
        /\ \A m \in MissingItemLists :
               AnalyzeEntitlementDrop(args.current_data, args.baseline_data,
                                      m).primary_cause = result.primary_cause

\* Catchment-drop and fulfillment-issue both qualify, the latter with the
\* confidence 0.8 of a rate of zero, and catchment-drop has been returned.
C18_Witness ==
    /\ RcaReturned
    /\ Qualifies(CATCHMENT_DROP)
    /\ Qualifies(FULFILLMENT_ISSUE)
    /\ result.fulfillment_rate_pct = FromInt(0)
    /\ result.catchment_variance_pct = FromInt(-100)
    /\ result.primary_cause = CATCHMENT_DROP

\* C19: catchment-drop and assortment-gap never both qualify; at a catchment
\* variance of exactly -10 neither qualifies, and then an entitlement
\* variance below -15 without a fulfillment issue is reported as
\* NORMAL_VARIANCE with confidence 0.5.
C19_ThresholdExcluded ==
    RcaReturned =>
        /\ ~(Qualifies(CATCHMENT_DROP) /\ Qualifies(ASSORTMENT_GAP))
        /\ result.catchment_variance_pct = FromInt(-10) =>
              /\ ~Qualifies(CATCHMENT_DROP)
              /\ ~Qualifies(ASSORTMENT_GAP)
              /\ (/\ RLt(result.entitlement_variance_pct, FromInt(-15))
                  /\ ~Qualifies(FULFILLMENT_ISSUE))
                 => /\ result.primary_cause = NORMAL_VARIANCE
                    /\ result.confidence_score = Rat(5, 10)

\* Catchment 9 against 10 and entitled 4 against 5 (variances -10 and -20),
\* all entitled orders attained: NORMAL_VARIANCE at 0.5 has been returned.
C19_Witness ==
    /\ RcaReturned
    /\ result.catchment_variance_pct = FromInt(-10)
    /\ result.entitlement_variance_pct = FromInt(-20)
    /\ result.fulfillment_rate_pct = FromInt(100)
    /\ result.primary_cause = NORMAL_VARIANCE
    /\ result.confidence_score = Rat(5, 10)

\* C21: when the current snapshot has entitled_count 0, or has none, the
\* fulfillment rate is 0 and fulfillment-issue is a candidate with
\* confidence 0.8; the result is never NORMAL_VARIANCE, and it is
\* FULFILLMENT_ISSUE with confidence 0.8 unless catchment-drop or
\* assortment-gap qualifies, also when every count is 0.
C21_NoEntitledOrders ==
    (/\ RcaDone
     /\ "entitled_count" \in DOMAIN args.current_data =>
            args.current_data.entitled_count = 0)
    => /\ ~IsExc(result)
       /\ result.fulfillment_rate_pct = FromInt(0)
       /\ \E i \in 1 .. Len(RcaCauses) : RcaCauses[i] = <<FULFILLMENT_ISSUE, Rat(8, 10)>>
       /\ result.primary_cause # NORMAL_VARIANCE
       /\ (~Qualifies(CATCHMENT_DROP) /\ ~Qualifies(ASSORTMENT_GAP))
          => /\ result.primary_cause = FULFILLMENT_ISSUE
             /\ result.confidence_score = Rat(8, 10)

\* Every current and baseline count is 0 and FULFILLMENT_ISSUE at 0.8 has
\* been returned.
C21_Witness ==
    /\ RcaReturned
    /\ args.current_data = Snapshot(0, 0, 0)
    /\ args.baseline_data = Baseline(0, 0, 0)
    /\ result.primary_cause = FULFILLMENT_ISSUE
    /\ result.confidence_score = Rat(8, 10)

(***************************************************************************)
(* Properties of the query generator (checked under SpecQG)                *)
(***************************************************************************)
DetectDone == pc = "done" /\ op = "detect_question_type"
TypeIndexes == 1 .. Len(QuestionTypes)
\* The number of keywords of the i-th declared type found in the question.
Matches(i, question) == CountMatches(Keywords[i], Lower(question))

\* C11: classification returns exactly one of the six question types for
\* every question: the type with the most keyword matches, the first
\* declared of the types that tie for the most, and CB_TREND when no
\* keyword matches at all.
C11_Classification ==
    DetectDone =>
        \E i \in TypeIndexes :
            /\ result.qtype = QuestionTypes[i]
            /\ IF \A j \in TypeIndexes : Matches(j, args.question) = 0
               THEN result.qtype = CB_TREND
               ELSE /\ \A j \in TypeIndexes :
                         Matches(j, args.question) <= Matches(i, args.question)
                    /\ \A j \in TypeIndexes :
                         j < i => Matches(j, args.question) < Matches(i, args.question)

\* A question on which two types tie for the most matches has been
\* classified as the one declared first.
C11_Witness ==
    /\ DetectDone
    /\ \E i, j \in TypeIndexes :
          /\ i < j
          /\ result.qtype = QuestionTypes[i]
          /\ Matches(i, args.question) > 0
          /\ Matches(i, args.question) = Matches(j, args.question)
          /\ \A k \in TypeIndexes : Matches(k, args.question) <= Matches(i, args.question)

FromQuestionDone == pc = "done" /\ op = "generate_query_from_question"
FromQuestionReturned == FromQuestionDone /\ ~IsExc(result)

\* C12: generate_query_from_question returns the query text, the detected
\* type and metadata holding the question, the type, the depot and a
\* description; the text is the trend query with the caller's lookback
\* (default 30) for CB_TREND, the missing-items query with the caller's
\* lookback (default 7) for MISSING_ITEMS, and the trend query with a
\* lookback of 30 whatever the caller passed for every other type.
C12_QueryFromQuestion ==
    FromQuestionReturned =>
        /\ DOMAIN result = {"sql", "qtype", "metadata"}
        /\ result.qtype = DetectQuestionType(args.question)
        /\ DOMAIN result.metadata = {"question", "question_type", "depot", "description"}
        /\ result.metadata.question = args.question
        /\ result.metadata.question_type = result.qtype
        /\ result.metadata.depot = args.depot
        /\ IF result.qtype = CB_TREND
           THEN /\ result.sql.template = "cb_trend"
                /\ result.sql.days_lookback =
                       IF "days_lookback" \in DOMAIN args.kwargs
                       THEN args.kwargs.days_lookback ELSE 30
           ELSE IF result.qtype = MISSING_ITEMS
           THEN /\ result.sql.template = "missing_items"
                /\ result.sql.days_lookback =
                       IF "days_lookback" \in DOMAIN args.kwargs
                       THEN args.kwargs.days_lookback ELSE 7
           ELSE /\ result.sql.template = "cb_trend"
                /\ result.sql.days_lookback = 30

\* A question of a type without a branch of its own, asked with a lookback
\* other than 30, has been answered with the 30-day trend query.
C12_Witness ==
    /\ FromQuestionReturned
    /\ result.qtype \notin {CB_TREND, MISSING_ITEMS}
    /\ "days_lookback" \in DOMAIN args.kwargs
    /\ args.kwargs.days_lookback # 30
    /\ result.sql.template = "cb_trend"
    /\ result.sql.days_lookback = 30

DepotOps ==
    {"generate_cb_trend_query", "generate_missing_items_query",
     "generate_entitlement_drop_query", "generate_item_frequency_query",
     "generate_query_from_question"}
\* The depots of the model that are integer literals: 7, 42 between blanks,
\* -3 and 007.
IntegerDepots ==
    { <<"7">>, <<" ", "4", "2", " ">>, <<"-", "3">>, <<"0", "0", "7">> }

\* C13: each of the four query builders and generate_query_from_question
\* fails with a ValueError when the depot is not an integer literal, and
\* returns a query whenever it is one.
C13_DepotValidated ==
    (pc = "done" /\ op \in DepotOps) =>
        IF args.depot \in IntegerDepots
        THEN ~IsExc(result)
        ELSE result = Raised("ValueError")

\* The item-frequency builder, whose text does not mention the depot, has
\* rejected the depot 12.5, and the cases of the claim are all there:
\* depots that are and are not integer literals.
C13_Witness ==
    /\ pc = "done"
    /\ op = "generate_item_frequency_query"
    /\ args.depot = <<"1", "2", ".", "5">>
    /\ IsExc(result)
    /\ IntegerDepots \subseteq Depots
    /\ Depots \ IntegerDepots # {}

(***************************************************************************)
(* Properties of recommend_category_focus (checked under SpecCat)          *)
(***************************************************************************)
CatDone == pc = "done" /\ op = "recommend_category_focus"
\* The category an item counts under.
CatOf(item) == IF "category" \in DOMAIN item THEN item.category ELSE "Uncategorized"
CatItems(items, c) == { i \in 1 .. Len(items) : CatOf(items[i]) = c }
RECURSIVE CatOrders(_, _)
CatOrders(items, c) ==
    IF items = <<>> THEN 0
    ELSE CatOrders(Tail(items), c)
         + (IF CatOf(Head(items)) = c THEN Head(items).order_count ELSE 0)
RECURSIVE SumItemCounts(_)
SumItemCounts(entries) ==
    IF entries = <<>> THEN 0 ELSE Head(entries).item_count + SumItemCounts(Tail(entries))

\* C17: recommend_category_focus returns at most top_n entries, one per
\* distinct category with items lacking a category under "Uncategorized";
\* each entry has the number of items of its category as item_count and the
\* sum of their order_count as total_orders; entries are in descending
\* order of total_orders and no omitted category has more orders than a
\* returned one; the item_counts of an untruncated result sum to the number
\* of input items.
C17_CategoryFocus ==
    CatDone =>
        LET items == args.missing_items
            cats == { CatOf(items[i]) : i \in 1 .. Len(items) }
            out == result.items
        IN  /\ ~IsExc(result)
            /\ Len(out) <= args.top_n
            /\ Len(out) = IF args.top_n < Cardinality(cats) THEN args.top_n
                          ELSE Cardinality(cats)
            /\ \A i, j \in 1 .. Len(out) : out[i].category = out[j].category => i = j
            /\ \A i \in 1 .. Len(out) :
                  /\ out[i].category \in cats
                  /\ out[i].item_count = Cardinality(CatItems(items, out[i].category))
                  /\ out[i].total_orders = CatOrders(items, out[i].category)
            /\ \A i, j \in 1 .. Len(out) :
                  i < j => out[i].total_orders >= out[j].total_orders
            /\ \A c \in cats \ { out[i].category : i \in 1 .. Len(out) } :
                  \A i \in 1 .. Len(out) : out[i].total_orders >= CatOrders(items, c)
            /\ Len(out) = Cardinality(cats) => SumItemCounts(out) = Len(items)

\* Three items of two categories, one of them without a category, have
\* been reduced to the one category of most orders, which holds two items.
C17_Witness ==
    /\ CatDone
    /\ Len(args.missing_items) = 3
    /\ args.top_n = 1
    /\ \E i \in 1 .. 3 : "category" \notin DOMAIN args.missing_items[i]
    /\ Len(result.items) = 1
    /\ result.items[1].item_count = 2

(***************************************************************************)
(* Properties of inputs with missing fields (checked under SpecNull)       *)
(***************************************************************************)
\* The value a record gives for a key, with the default for a key that is
\* absent or None.
ValueOr(dict, key, default) ==
    IF key \in DOMAIN dict /\ ~HasNone(dict, key) THEN dict[key] ELSE default

\* The input record a returned simulation or shown recommendation is of.
C14_Source(records, idkey, id) ==
    CHOOSE i \in 1 .. Len(records) : records[i][idkey] = id

\* C14 (as claimed): with fields absent or None in any record,
\* recommend_items, recommend_category_focus and the analysis return without
\* an exception, and the recommendations of a batch of rows are shown; every
\* record of a batch is in the result; counts that are absent or None are
\* taken as 0, product names as "Unknown" and categories as "Uncategorized".
C14_MissingFieldsTolerated ==
    pc = "done" =>
        /\ ~IsExc(result)
        /\ op = "recommend_items" =>
              /\ Len(result.items) = Len(args.missing_items)
              /\ \A k \in 1 .. Len(result.items) :
                    LET r == result.items[k]
                        item == args.missing_items[
                                    C14_Source(args.missing_items, "catlg_item_id",
                                               r.item_id)]
                    IN  /\ r.product_name = ValueOr(item, "product_name", "Unknown")
                        /\ r.category = ValueOr(item, "category", "Uncategorized")
                        /\ r.current_order_count = ValueOr(item, "order_count", 0)
                        /\ r.substitution_count = ValueOr(item, "substitution_count", 0)
        /\ op = "recommend_category_focus" =>
              /\ { result.items[k].category : k \in 1 .. Len(result.items) }
                    = { ValueOr(args.missing_items[i], "category", "Uncategorized") :
                          i \in 1 .. Len(args.missing_items) }
              /\ SumItemCounts(result.items) = Len(args.missing_items)
        /\ op = "analyze_entitlement_drop" =>
              /\ result.entitlement_variance_pct =
                     CalculateVariance(ValueOr(args.current_data, "entitled_count", 0),
                                       ValueOr(args.baseline_data, "avg_entitled", 0))
              /\ result.catchment_variance_pct =
                     CalculateVariance(ValueOr(args.current_data, "catchment_count", 0),
                                       ValueOr(args.baseline_data, "avg_catchment", 0))
        /\ op = "render_recommendations" =>
              /\ result.shown = "recommendations"
              /\ Len(result.items) = Len(args.missing_items)
              /\ \A k \in 1 .. Len(result.items) :
                    LET r == result.items[k]
                        row == args.missing_items[
                                   C14_Source(args.missing_items, "CATLG_ITEM_ID",
                                              r.item_id)]
                    IN  /\ r.product_name = ValueOr(row, "PROD_NM", "Unknown")
                        /\ r.category = ValueOr(row, "CATEGORY", "Uncategorized")

(***************************************************************************)
(* Properties of concurrent calls (checked under SpecConc)                 *)
(***************************************************************************)
\* What operation o returns when it runs alone on the objects of h.
Alone(o, h) ==
    IF o = "detect_question_type" THEN [qtype |-> DetectQuestionType(h.question)]
    ELSE IF o = "recommend_items"
    THEN RecommendItems(h.missing_items, h.current_cb_percent,
                        h.current_catchment_count, h.current_entitled_count, h.top_n)
    ELSE IF o = "recommend_category_focus"
    THEN RecommendCategoryFocus(h.missing_items, CATEGORY_TOP_N_DEFAULT)
    ELSE AnalyzeEntitlementDrop(h.current_data, h.baseline_data, List(h.missing_items))

C15_SameAsAlone ==
    \A t \in DOMAIN frames :
        frames[t].pc = "done" =>
            /\ frames[t].returned = Alone(frames[t].op, heap)
            /\ frames[t].op = "analyze_entitlement_drop" =>
                  frames[t].returned.missing_items_list = List(heap.missing_items)

\* C15: under every interleaving of the steps of concurrent calls on shared
\* engine instances and argument objects, a call that has returned has
\* returned what the operation returns when it runs alone on the same
\* objects, whatever calls came before it; the analysis returns the caller's
\* missing-items list; and no step changes the argument objects or the
\* attributes of the engine.
C15_PureAndStateless == [](C15_SameAsAlone) /\ [][heap' = heap]_vars

\* One thread has returned from recommend_items with the item of greatest
\* lift, which is second in the list, while another is inside its loop over
\* the same list.
C15_Witness ==
    \E t, u \in DOMAIN frames :
        /\ t # u
        /\ frames[t].op = "recommend_items"
        /\ frames[t].pc = "done"
        /\ Len(heap.missing_items) = 2
        /\ frames[t].returned = List(<<SimulateItemImpact(heap.missing_items[2],
                                          heap.current_cb_percent,
                                          heap.current_catchment_count,
                                          heap.current_entitled_count)>>)
        /\ frames[u].op = "recommend_items"
        /\ frames[u].pc = "loop"
        /\ Len(frames[u].locals.simulations) = 1

NextRCA == Analyze

SpecRCA == InitRCA /\ [][NextRCA]_vars

NextRec == Recommend

SpecRec == InitRec /\ [][NextRec]_vars

NextQG ==
    \/ Detect
    \/ GenerateFromQuestion
    \/ CbTrendQuery
    \/ MissingItemsQuery
    \/ EntitlementDropQuery
    \/ ItemFrequencyQuery

SpecQG == InitQG /\ [][NextQG]_vars

NextCat == CategoryFocus

SpecCat == InitCat /\ [][NextCat]_vars

NextNull ==
    \/ Recommend
    \/ CategoryFocus
    \/ Analyze
    \/ Render

SpecNull == InitNull /\ [][NextNull]_vars

NextConc ==
    \E t \in DOMAIN frames :
        \/ ConcLower(t)
        \/ ConcDetect(t)
        \/ ConcRecStart(t)
        \/ ConcSimulate(t)
        \/ ConcSort(t)
        \/ ConcCatStart(t)
        \/ ConcCount(t)
        \/ ConcCatSort(t)
        \/ ConcVariances(t)
        \/ ConcCause(t)
        \/ ConcCall(t)

SpecConc == InitConc /\ [][NextConc]_vars

Init == InitRCA \/ InitRec \/ InitQG \/ InitCat \/ InitNull \/ InitConc

Next == Analyze \/ Recommend \/ NextQG \/ CategoryFocus \/ Render \/ NextConc

Spec == Init /\ [][Next]_vars

====
